---- MODULE Spec2Model ----
(***************************************************************************)
(* Chunked upload of a file to a OneDrive upload session, as implemented   *)
(* by AzureClient in azure/azure.go (the exported, parallel version with   *)
(* file-ID resolution, lines 1-521), together with the credential          *)
(* handling of EnsureTokenValid.                                           *)
(*                                                                         *)
(*   Spec      one call of AzureClient.Upload: token check, session open,  *)
(*             file open/stat, worker pool, join, item resolution; the     *)
(*             token endpoint, the upload session and the drive are the    *)
(*             environment and answer nondeterministically.                *)
(*   SpecCred  several goroutines calling operations of one AzureClient    *)
(*             concurrently (EnsureTokenValid, GetDriveQuota,              *)
(*             GetQuickXorHash, getFileID, the head of Upload).            *)
(***************************************************************************)
EXTENDS Integers, Sequences, FiniteSets, TLC

\* ------------------------------------------------------------------------
\* Bounds of the model
\* ------------------------------------------------------------------------
MaxFileSize == 3
MaxChunkSize == 2
MaxParallel == 2
MaxRetriesBound == 2
MaxTime == 1
MaxLifetime == 1
NumCallers == 2

VARIABLES
    now,          \* the wall clock, as read by time.Now()
    client,       \* AzureClient: AccessToken, RefreshToken, Expiration
    mu,           \* AzureClient.mu: the set of goroutines holding it (0 or 1)
    callers,      \* per goroutine: the operation it runs and where it is in it
    accesses,     \* every access to a credential field made so far
    authIssued,   \* token endpoint: number of token responses it has issued
    params,       \* UploadParams and the local file, fixed for one Upload
    upc,          \* Upload: position of the calling goroutine
    loopVar,      \* Upload: i of the spawn loop, start of the enqueue loop
    uploadURL,    \* Upload: the session endpoint returned by createUploadSession
    chunkChan,    \* Upload: buffered channel of chunk start offsets
    chanClosed,   \* Upload: close(chunkChan) has run
    errChan,      \* Upload: buffered channel of read errors
    wg,           \* Upload: sync.WaitGroup counter
    workers,      \* Upload: per worker goroutine its position and locals
    enqueued,     \* history: every start offset sent on chunkChan, in order
    requests,     \* history: every HTTP request issued by Upload
    tokenChecks,  \* history: number of EnsureTokenValid calls made by Upload
    drive,        \* the remote drive and upload session (environment)
    result,       \* what Upload returned: file ID and error
    reads,        \* history: offsets received from chunkChan, failed ReadAt calls
    flags,        \* main: the command-line flags read after Upload
    mpc,          \* main: position of the main goroutine
    hashRetry,    \* getQuickXorHashWithRetry: the loop variable retry
    hashFetches,  \* history: the outcome of every GetQuickXorHash call, in order
    output,       \* history: what main has printed and how it ended
    fn            \* a function of the program under test: argument and result

credVars == <<now, client, mu, callers, accesses, authIssued>>
uploadVars == <<params, upc, loopVar, uploadURL, chunkChan, chanClosed, errChan,
                wg, workers, enqueued, requests, tokenChecks, drive, result>>
mainVars == <<flags, mpc, hashRetry, hashFetches, output>>
vars == <<now, client, mu, callers, accesses, authIssued, params, upc, loopVar,
          uploadURL, chunkChan, chanClosed, errChan, wg, workers, enqueued,
          requests, tokenChecks, drive, result, reads, flags, mpc, hashRetry,
          hashFetches, output, fn>>

\* ------------------------------------------------------------------------
\* Credentials: AzureClient and EnsureTokenValid
\* ------------------------------------------------------------------------

\* Goroutine 0 is the caller of Upload; 1..NumCallers are further callers
\* of operations on the same client.
Callers == 0..NumCallers

\* Tokens are numbers: 0 is the empty string (the zero value a JSON decoder
\* leaves for an absent field), 1 the token of the configuration, 2.. the
\* tokens the token endpoint issues.
EmptyToken == 0
ConfigToken == 1

\* The operations of the client that touch its credentials.
OpSeq == <<"EnsureTokenValid", "GetDriveQuota", "GetQuickXorHash", "getFileID", "Upload">>

NoResp == [at |-> EmptyToken, rt |-> EmptyToken, exp |-> 0]

IdleCaller == [op |-> "none", pc |-> "idle", err |-> "none", refreshes |-> 0,
               resp |-> NoResp]

\* One access to a credential field of the client: which operation made
\* it, at which field, and whether the accessing goroutine held client.mu.
Access(c, op, field, kind) ==
    [op |-> op, field |-> field, kind |-> kind, held |-> (c \in mu)]

\* res.StatusCode < 200 || res.StatusCode > 299 is a failure.
RefreshStatusOK(status) == status >= 200 /\ status <= 299

\* What the token endpoint may answer to a refresh exchange.  A decodable
\* body carries access_token and refresh_token, or lacks them (they are
\* decoded as the zero value), and expires_in, 0 when it is absent.
TokenStatuses == {200, 204, 400, 500}
TokenResponses(fresh) ==
    [kind : {"transport", "undecodable"}, status : {200}, tok : {EmptyToken},
     exp : {0}]
    \cup [kind : {"body"}, status : TokenStatuses, tok : {EmptyToken, fresh},
          exp : 0..MaxLifetime]

\* The answers of a token endpoint that issues only complete token
\* responses, with a positive lifetime.
CompleteTokenResponses(fresh) ==
    {r \in TokenResponses(fresh) : r.kind = "body" => r.tok = fresh /\ r.exp = MaxLifetime}

\* The answers of the token endpoint a client talks to: any endpoint, or
\* one that issues only complete responses.
TokenEndpoint(endpoint, fresh) ==
    IF endpoint = "complete" THEN CompleteTokenResponses(fresh)
    ELSE TokenResponses(fresh)

ETV_LockNoExclusion(c) ==
    /\ callers[c].pc = "etv_lock"
    /\ mu' = mu \cup {c}
    /\ callers' = [callers EXCEPT ![c].pc = "etv_check", ![c].refreshes = 0,
                                  ![c].err = "none"]
    /\ UNCHANGED <<now, client, accesses, authIssued>>

\* client.mu.Lock()
ETV_Lock(c) ==
    /\ callers[c].pc = "etv_lock"
    /\ mu = {}
    /\ mu' = {c}
    /\ callers' = [callers EXCEPT ![c].pc = "etv_check", ![c].refreshes = 0,
                                  ![c].err = "none"]
    /\ UNCHANGED <<now, client, accesses, authIssued>>

\* if time.Now().Before(client.Expiration) { return nil }; otherwise the
\* refresh request is built from the refresh token and sent.
ETV_Check(c) ==
    /\ callers[c].pc = "etv_check"
    /\ IF now < client.Expiration
       THEN /\ callers' = [callers EXCEPT ![c].pc = "etv_ret", ![c].err = "nil"]
            /\ mu' = mu \ {c}
            /\ accesses' = accesses \cup
                   {Access(c, "EnsureTokenValid", "Expiration", "read")}
       ELSE /\ callers' = [callers EXCEPT ![c].pc = "etv_exchange",
                                          ![c].refreshes = @ + 1]
            /\ mu' = mu
            /\ accesses' = accesses \cup
                   {Access(c, "EnsureTokenValid", "Expiration", "read"),
                    Access(c, "EnsureTokenValid", "RefreshToken", "read")}
    /\ UNCHANGED <<now, client, authIssued>>

ETV_ResponseInstallOnError(c, endpoint) ==
    /\ callers[c].pc = "etv_exchange"
    /\ \E r \in TokenEndpoint(endpoint, ConfigToken + authIssued + 1) :
          IF r.kind = "body" /\ RefreshStatusOK(r.status)
          THEN /\ callers' = [callers EXCEPT ![c].pc = "etv_install",
                                 ![c].resp = [at |-> r.tok, rt |-> r.tok, exp |-> r.exp]]
               /\ authIssued' = authIssued + 1
               /\ mu' = mu
               /\ client' = client
          ELSE /\ callers' = [callers EXCEPT ![c].pc = "etv_ret", ![c].err = "refresh"]
               /\ authIssued' = authIssued
               /\ mu' = mu \ {c}
               /\ client' = [client EXCEPT !.AccessToken = EmptyToken,
                                           !.RefreshToken = EmptyToken]
    /\ UNCHANGED <<now, accesses>>

\* httpClient.Do(req), the status check and the JSON decoding of the body.
ETV_Response(c, endpoint) ==
    /\ callers[c].pc = "etv_exchange"
    /\ \E r \in TokenEndpoint(endpoint, ConfigToken + authIssued + 1) :
          IF r.kind = "body" /\ RefreshStatusOK(r.status)
          THEN /\ callers' = [callers EXCEPT ![c].pc = "etv_install",
                                 ![c].resp = [at |-> r.tok, rt |-> r.tok, exp |-> r.exp]]
               /\ authIssued' = authIssued + 1
               /\ mu' = mu
          ELSE /\ callers' = [callers EXCEPT ![c].pc = "etv_ret", ![c].err = "refresh"]
               /\ authIssued' = authIssued
               /\ mu' = mu \ {c}
    /\ UNCHANGED <<now, client, accesses>>

\* client.AccessToken = responseData.AccessToken
\* client.RefreshToken = responseData.RefreshToken
ETV_InstallTokens(c) ==
    /\ callers[c].pc = "etv_install"
    /\ client' = [client EXCEPT !.AccessToken = callers[c].resp.at,
                                !.RefreshToken = callers[c].resp.rt]
    /\ accesses' = accesses \cup
           {Access(c, "EnsureTokenValid", "AccessToken", "write"),
            Access(c, "EnsureTokenValid", "RefreshToken", "write")}
    /\ callers' = [callers EXCEPT ![c].pc = "etv_expiry"]
    /\ UNCHANGED <<now, mu, authIssued>>

\* The expiry the refresh installs: time.Now().Add(ExpiresIn * time.Second)
NewExpiration(t, lifetime) == t + lifetime

\* client.Expiration = time.Now().Add(...); return nil (mu is unlocked by
\* the deferred Unlock).
ETV_InstallExpiry(c) ==
    /\ callers[c].pc = "etv_expiry"
    /\ client' = [client EXCEPT !.Expiration = NewExpiration(now, callers[c].resp.exp)]
    /\ accesses' = accesses \cup
           {Access(c, "EnsureTokenValid", "Expiration", "write")}
    /\ callers' = [callers EXCEPT ![c].pc = "etv_ret", ![c].err = "nil",
                                  ![c].resp = NoResp]
    /\ mu' = mu \ {c}
    /\ UNCHANGED <<now, authIssued>>

EnsureTokenValid(c, endpoint) ==
    \/ ETV_Lock(c)
    \/ ETV_Check(c)
    \/ ETV_Response(c, endpoint)
    \/ ETV_InstallTokens(c)
    \/ ETV_InstallExpiry(c)

\* Time passes.
Tick ==
    /\ now < MaxTime
    /\ now' = now + 1
    /\ UNCHANGED <<client, mu, callers, accesses, authIssued>>

IdleWorker == [pc |-> "off", start |-> 0, retry |-> 0, checkAt |-> 0]

\* A worker between two iterations of "for start := range chunkChan":
\* start, end, chunk and retry are locals of one iteration.
NextIteration(wk) == [wk EXCEPT !.pc = "recv", !.start = 0, !.retry = 0]
NoResult == [id |-> "", err |-> "none"]

\* No offset was received from chunkChan and no ReadAt has failed.
NoReads == [taken |-> [s \in {} |-> 0], failed |-> {}]

\* main is not running and no function is under test.
NoFlags == [skipHash |-> FALSE, hashRetries |-> 0]
NoCall == [op |-> "none", arg |-> 0, done |-> FALSE, out |-> 0]
MainOff ==
    /\ flags = NoFlags
    /\ mpc = "off"
    /\ hashRetry = 0
    /\ hashFetches = <<>>
    /\ output = <<>>
    /\ fn = NoCall

\* ------------------------------------------------------------------------
\* Concurrent callers of one client (SpecCred)
\* ------------------------------------------------------------------------

\* A goroutine about to run operation op of the client.  getFileID makes
\* no validity check; the others start with EnsureTokenValid.
Calling(op) ==
    [IdleCaller EXCEPT !.op = op,
                       !.pc = IF op = "getFileID" THEN "read" ELSE "etv_lock"]

\* EnsureTokenValid has returned: the operation ends on its error, or goes
\* on to build its request.
AfterCheck(c) ==
    /\ callers[c].pc = "etv_ret"
    /\ callers' = [callers EXCEPT ![c].pc =
                      IF callers[c].op = "EnsureTokenValid" \/ callers[c].err # "nil"
                      THEN "done" ELSE "read"]
    /\ UNCHANGED <<now, client, mu, accesses, authIssued>>

\* req.Header.Set("Authorization", "Bearer "+client.AccessToken), and the
\* argument client.AccessToken of createUploadSession: a plain field read.
ReadToken(c) ==
    /\ callers[c].pc = "read"
    /\ callers' = [callers EXCEPT ![c].pc = "done"]
    /\ accesses' = accesses \cup {Access(c, callers[c].op, "AccessToken", "read")}
    /\ UNCHANGED <<now, client, mu, authIssued>>

\* No Upload is running: none was called (pc is "off"), or one has
\* returned res (pc is "done").
UploadIdle(pc, res) ==
    /\ params = [FileSize |-> 0, ChunkSize |-> 1, ParallelChunks |-> 0,
                 MaxRetries |-> 0]
    /\ upc = pc
    /\ loopVar = 0
    /\ uploadURL = "none"
    /\ chunkChan = <<>>
    /\ chanClosed = FALSE
    /\ errChan = <<>>
    /\ wg = 0
    /\ workers = [w \in 1..MaxParallel |-> IdleWorker]
    /\ enqueued = <<>>
    /\ requests = {}
    /\ tokenChecks = 0
    /\ drive = [atPath |-> "none", renamed |-> "none", session |-> "none",
                accepted |-> {}, refused |-> {}, lookup |-> "none"]
    /\ result = res
    /\ reads = NoReads

UploadOff == UploadIdle("off", NoResult)

InitCred ==
    /\ now = 0
    /\ client \in [AccessToken : {ConfigToken}, RefreshToken : {ConfigToken},
                   Expiration : 0..MaxTime]
    /\ mu = {}
    \* the goroutines are interchangeable: their operations are taken in
    \* the order of OpSeq
    /\ \E ops \in [1..NumCallers -> 1..Len(OpSeq)] :
          /\ \A c \in 1..(NumCallers - 1) : ops[c] <= ops[c + 1]
          /\ callers = [c \in Callers |->
                           IF c = 0 THEN IdleCaller ELSE Calling(OpSeq[ops[c]])]
    /\ accesses = {}
    /\ authIssued = 0
    /\ UploadOff
    /\ MainOff

NextCred ==
    \/ \E c \in 1..NumCallers :
          EnsureTokenValid(c, "any") /\ UNCHANGED <<uploadVars, reads, mainVars, fn>>
    \/ \E c \in 1..NumCallers :
          AfterCheck(c) /\ UNCHANGED <<uploadVars, reads, mainVars, fn>>
    \/ \E c \in 1..NumCallers :
          ReadToken(c) /\ UNCHANGED <<uploadVars, reads, mainVars, fn>>
    \/ Tick /\ UNCHANGED <<uploadVars, reads, mainVars, fn>>

SpecCred == InitCred /\ [][NextCred]_vars

\* NumCallers goroutines call EnsureTokenValid on one client whose token
\* has expired; the token endpoint issues complete responses with a
\* positive lifetime, or the exchange fails (SpecRefresh).
InitRefresh ==
    /\ now = 0
    /\ client = [AccessToken |-> ConfigToken, RefreshToken |-> ConfigToken,
                 Expiration |-> now]
    /\ mu = {}
    /\ callers = [c \in Callers |->
                     IF c = 0 THEN IdleCaller ELSE Calling("EnsureTokenValid")]
    /\ accesses = {}
    /\ authIssued = 0
    /\ UploadOff
    /\ MainOff

NextRefresh ==
    \/ \E c \in 1..NumCallers :
          EnsureTokenValid(c, "complete") /\ UNCHANGED <<uploadVars, reads, mainVars, fn>>
    \/ \E c \in 1..NumCallers :
          AfterCheck(c) /\ UNCHANGED <<uploadVars, reads, mainVars, fn>>
    \/ Tick /\ UNCHANGED <<uploadVars, reads, mainVars, fn>>

SpecRefresh == InitRefresh /\ [][NextRefresh]_vars

\* ------------------------------------------------------------------------
\* AzureClient.Upload (Spec)
\* ------------------------------------------------------------------------

Workers == 1..MaxParallel

\* numChunks := (fileSize + chunkSize - 1) / chunkSize
NumChunksFloor(fileSize, chunkSize) == fileSize \div chunkSize
NumChunks(fileSize, chunkSize) == (fileSize + chunkSize - 1) \div chunkSize

\* end := start + chunkSize - 1; if end >= fileSize { end = fileSize - 1 }
ChunkEndUnclamped(start, fileSize, chunkSize) == start + chunkSize - 1
ChunkEnd(start, fileSize, chunkSize) ==
    IF start + chunkSize - 1 >= fileSize THEN fileSize - 1 ELSE start + chunkSize - 1

\* The start offsets of the file's chunks: for start := 0; start < fileSize;
\* start += chunkSize.
ChunkStarts(fileSize, chunkSize) ==
    {s \in 0..(fileSize - 1) : s % chunkSize = 0}

AllChunks == ChunkStarts(params.FileSize, params.ChunkSize)

\* uploadChunk: resp.StatusCode == http.StatusCreated || == http.StatusAccepted
ChunkSuccessAny2xx(status) == status >= 200 /\ status <= 299
ChunkSuccess(status) == status = 201 \/ status = 202

\* createUploadSession and getFileID: resp.StatusCode != http.StatusOK is an error
StatusOK(status) == status = 200

\* if err := client.EnsureTokenValid(httpClient); err != nil { return "", err }
TokenCheckIgnored(err) == FALSE
TokenCheckFailed(err) == err # "nil"

\* The statuses the drive answers with when it does not accept a request;
\* 0 stands for a transport failure (httpClient.Do returns an error).
Transport == 0
RefusalStatuses == {Transport, 204, 404, 500}

\* uploadChunk after httpClient.Do: false for a transport error, otherwise
\* true exactly for the two acceptance statuses.
uploadChunk(status) == status # Transport /\ ChunkSuccess(status)

Request(kind, start, end, total, bearer, body) ==
    [kind |-> kind, start |-> start, end |-> end, total |-> total, bearer |-> bearer,
     body |-> body]

ChunkRequests == {r \in requests : r.kind = "chunk"}

\* return id, err
Return(id, err) ==
    /\ result' = [id |-> id, err |-> err]
    /\ upc' = "done"

\* The drive accepts the byte range starting at start.  When every range
\* of the file is covered the item is created; the session was opened with
\* "@microsoft.graph.conflictBehavior": "rename", so that an item already
\* at the path is kept and the new one is stored under another name.
DriveAccept(d, start) ==
    LET acc == d.accepted \cup {start}
        complete == acc = AllChunks /\ d.accepted # AllChunks
    IN  [d EXCEPT !.accepted = acc,
                  !.atPath = IF complete /\ d.atPath = "none" THEN "new" ELSE @,
                  !.renamed = IF complete /\ d.atPath # "none" THEN "new" ELSE @]

\* A request for the byte range starting at start gets no acceptance.
DriveRefuse(d, start) == [d EXCEPT !.refused = @ \cup {start}]

\* fmt.Println("Starting file upload..."); client.EnsureTokenValid(httpClient)
U_Start ==
    /\ upc = "start"
    /\ callers' = [callers EXCEPT ![0] = Calling("Upload")]
    /\ tokenChecks' = tokenChecks + 1
    /\ upc' = "check"
    /\ UNCHANGED <<now, client, mu, accesses, authIssued, params, loopVar, uploadURL,
                   chunkChan, chanClosed, errChan, wg, workers, enqueued, requests,
                   drive, result>>

\* EnsureTokenValid has returned to Upload.
U_TokenChecked ==
    /\ upc = "check"
    /\ callers[0].pc = "etv_ret"
    /\ callers' = [callers EXCEPT ![0].pc = "upload"]
    /\ IF TokenCheckFailed(callers[0].err)
       THEN Return("", "auth")
       ELSE upc' = "session" /\ result' = result
    /\ UNCHANGED <<now, client, mu, accesses, authIssued, params, loopVar, uploadURL,
                   chunkChan, chanClosed, errChan, wg, workers, enqueued, requests,
                   tokenChecks, drive>>

\* client.createUploadSession(httpClient, params.RemoteFilePath,
\* client.AccessToken): the token is read and the POST is sent.
U_CreateSessionSend ==
    /\ upc = "session"
    /\ accesses' = accesses \cup {Access(0, "Upload", "AccessToken", "read")}
    /\ requests' = requests \cup {Request("session", 0, 0, 0, client.AccessToken, 0)}
    /\ upc' = "session_wait"
    /\ UNCHANGED <<now, client, mu, callers, authIssued, params, loopVar, uploadURL,
                   chunkChan, chanClosed, errChan, wg, workers, enqueued,
                   tokenChecks, drive, result>>

\* What the drive may answer to the session-open request: a refusal (or
\* no answer at all), or 200 with a body that carries uploadUrl or cannot
\* be decoded.
SessionResponses ==
    [status : RefusalStatuses, body : {"error"}]
    \cup [status : {200}, body : {"url", "undecodable"}]

\* createUploadSession without its status check: every decodable body is
\* taken for a session (an error body has no uploadUrl).
CreateSessionResultNoStatusCheck(r) ==
    IF r.status = Transport \/ r.body = "undecodable"
    THEN [url |-> "none", err |-> "session"]
    ELSE [url |-> IF r.body = "url" THEN "url" ELSE "", err |-> "nil"]

\* createUploadSession after httpClient.Do: a transport error, a status
\* other than 200 and an undecodable body are errors; otherwise
\* response.UploadUrl is returned (empty when the body has no uploadUrl).
CreateSessionResult(r) ==
    IF r.status = Transport \/ ~StatusOK(r.status) \/ r.body = "undecodable"
    THEN [url |-> "none", err |-> "session"]
    ELSE [url |-> IF r.body = "url" THEN "url" ELSE "", err |-> "nil"]

\* uploadURL, err := client.createUploadSession(...); if err != nil
\* { return "", ... }.  The drive opens the session exactly when it
\* answers 200.
U_CreateSessionResp ==
    /\ upc = "session_wait"
    /\ \E r \in SessionResponses :
          LET res == CreateSessionResult(r)
          IN  /\ drive' = [drive EXCEPT !.session =
                              IF r.status = 200 THEN "open"
                              ELSE IF r.status = Transport THEN "unreachable"
                              ELSE "refused"]
              /\ IF res.err # "nil"
                 THEN Return("", res.err) /\ uploadURL' = uploadURL
                 ELSE upc' = "open" /\ uploadURL' = res.url /\ result' = result
    /\ UNCHANGED <<now, client, mu, callers, accesses, authIssued, params, loopVar,
                   chunkChan, chanClosed, errChan, wg, workers, enqueued, requests,
                   tokenChecks>>

\* file, err := os.Open(params.FilePath)
U_OpenFile ==
    /\ upc = "open"
    /\ \/ upc' = "stat" /\ result' = result
       \/ Return("", "open")
    /\ UNCHANGED <<now, client, mu, callers, accesses, authIssued, params, loopVar,
                   uploadURL, chunkChan, chanClosed, errChan, wg, workers, enqueued,
                   requests, tokenChecks, drive>>

\* fileInfo, err := file.Stat(); fileSize := fileInfo.Size(); numChunks and
\* the two channels are made.
U_Stat ==
    /\ upc = "stat"
    /\ \/ upc' = "spawn" /\ result' = result
       \/ Return("", "stat")
    /\ loopVar' = 0
    /\ UNCHANGED <<now, client, mu, callers, accesses, authIssued, params,
                   uploadURL, chunkChan, chanClosed, errChan, wg, workers, enqueued,
                   requests, tokenChecks, drive>>

U_SpawnOneMore ==
    /\ upc = "spawn"
    /\ IF loopVar <= params.ParallelChunks /\ loopVar + 1 \in Workers
       THEN /\ wg' = wg + 1
            /\ workers' = [workers EXCEPT ![loopVar + 1].pc = "recv"]
            /\ loopVar' = loopVar + 1
            /\ upc' = upc
       ELSE /\ upc' = "enqueue"
            /\ loopVar' = 0
            /\ UNCHANGED <<wg, workers>>
    /\ UNCHANGED <<now, client, mu, callers, accesses, authIssued, params,
                   uploadURL, chunkChan, chanClosed, errChan, enqueued,
                   requests, tokenChecks, drive, result>>

\* for i := 0; i < params.ParallelChunks; i++ { wg.Add(1); go func() {...}() }
U_Spawn ==
    /\ upc = "spawn"
    /\ IF loopVar < params.ParallelChunks
       THEN /\ wg' = wg + 1
            /\ workers' = [workers EXCEPT ![loopVar + 1].pc = "recv"]
            /\ loopVar' = loopVar + 1
            /\ upc' = upc
       ELSE /\ upc' = "enqueue"
            /\ loopVar' = 0
            /\ UNCHANGED <<wg, workers>>
    /\ UNCHANGED <<now, client, mu, callers, accesses, authIssued, params,
                   uploadURL, chunkChan, chanClosed, errChan, enqueued,
                   requests, tokenChecks, drive, result>>

\* for start := int64(0); start < fileSize; start += chunkSize
\*     { chunkChan <- start }; close(chunkChan)
\* A send blocks while the channel holds numChunks elements.
U_Enqueue ==
    /\ upc = "enqueue"
    /\ IF loopVar < params.FileSize
       THEN /\ Len(chunkChan) < NumChunks(params.FileSize, params.ChunkSize)
            /\ chunkChan' = Append(chunkChan, loopVar)
            /\ enqueued' = Append(enqueued, loopVar)
            /\ loopVar' = loopVar + params.ChunkSize
            /\ UNCHANGED <<upc, chanClosed>>
       ELSE /\ chanClosed' = TRUE
            /\ upc' = "wait"
            /\ UNCHANGED <<chunkChan, enqueued, loopVar>>
    /\ UNCHANGED <<now, client, mu, callers, accesses, authIssued, params,
                   uploadURL, errChan, wg, workers, requests, tokenChecks, drive,
                   result>>

U_WaitNoJoin ==
    /\ upc = "wait"
    /\ upc' = "select"
    /\ UNCHANGED <<now, client, mu, callers, accesses, authIssued, params, loopVar,
                   uploadURL, chunkChan, chanClosed, errChan, wg, workers, enqueued,
                   requests, tokenChecks, drive, result>>

\* wg.Wait()
U_Wait ==
    /\ upc = "wait"
    /\ wg = 0
    /\ upc' = "select"
    /\ UNCHANGED <<now, client, mu, callers, accesses, authIssued, params, loopVar,
                   uploadURL, chunkChan, chanClosed, errChan, wg, workers, enqueued,
                   requests, tokenChecks, drive, result>>

\* select { case err := <-errChan: return "", ...; default: getFileID }
U_Select ==
    /\ upc = "select"
    /\ IF errChan # <<>>
       THEN Return("", "upload") /\ errChan' = Tail(errChan)
       ELSE upc' = "resolve" /\ UNCHANGED <<errChan, result>>
    /\ UNCHANGED <<now, client, mu, callers, accesses, authIssued, params, loopVar,
                   uploadURL, chunkChan, chanClosed, wg, workers, enqueued,
                   requests, tokenChecks, drive>>

\* getFileID: the GET for the remote path is sent with
\* "Bearer "+client.AccessToken.
U_GetFileIDSend ==
    /\ upc = "resolve"
    /\ accesses' = accesses \cup {Access(0, "getFileID", "AccessToken", "read")}
    /\ requests' = requests \cup {Request("resolve", 0, 0, 0, client.AccessToken, 0)}
    /\ upc' = "resolve_wait"
    /\ UNCHANGED <<now, client, mu, callers, authIssued, params, loopVar, uploadURL,
                   chunkChan, chanClosed, errChan, wg, workers, enqueued,
                   tokenChecks, drive, result>>

\* What the drive may answer to the lookup of the remote path: a refusal
\* (404 when no item is at the path), or 200 with the record of the item at
\* the path, whose id may be missing or whose body may be undecodable.
LookupResponses(d) ==
    [status : RefusalStatuses, body : {""}]
    \cup (IF d.atPath = "none" THEN {}
          ELSE [status : {200}, body : {d.atPath, "", "undecodable"}])

\* getFileID without the check of metadata.ID: the decoded ID is returned
\* as it is.
GetFileIDResultNoEmptyCheck(r) ==
    IF r.status = Transport \/ ~StatusOK(r.status) \/ r.body = "undecodable"
    THEN [id |-> "", err |-> "fileid"]
    ELSE [id |-> r.body, err |-> "nil"]

\* getFileID after httpClient.Do: a transport error, a status other than
\* 200, an undecodable body and an empty metadata.ID are errors.
GetFileIDResult(r) ==
    IF r.status = Transport \/ ~StatusOK(r.status) \/ r.body = "undecodable"
       \/ r.body = ""
    THEN [id |-> "", err |-> "fileid"]
    ELSE [id |-> r.body, err |-> "nil"]

\* fileID, err := client.getFileID(...); if err != nil { return "", ... };
\* return fileID, nil
U_GetFileIDResp ==
    /\ upc = "resolve_wait"
    /\ \E r \in LookupResponses(drive) :
          LET res == GetFileIDResult(r)
          IN  /\ drive' = [drive EXCEPT !.lookup =
                              IF r.status = 200 /\ r.body \notin {"", "undecodable"}
                              THEN r.body ELSE "failed"]
              /\ Return(res.id, res.err)
    /\ UNCHANGED <<now, client, mu, callers, accesses, authIssued, params, loopVar,
                   uploadURL, chunkChan, chanClosed, errChan, wg, workers, enqueued,
                   requests, tokenChecks>>

\* for retry := 0; retry < params.MaxRetries; retry++ { uploadChunk(...) }:
\* the head of the retry loop with retry = r.  While r < MaxRetries the
\* chunk is PUT with its Content-Range and the worker waits for the answer;
\* otherwise the loop ends and with it the iteration: nothing is sent on
\* errChan.
RetryLoopOneMore(wk, r) ==
    IF r <= params.MaxRetries
    THEN [wk EXCEPT !.pc = "inflight", !.retry = r, !.checkAt = tokenChecks]
    ELSE NextIteration(wk)

RetryLoopStopWorker(wk, r) ==
    IF r < params.MaxRetries
    THEN [wk EXCEPT !.pc = "inflight", !.retry = r, !.checkAt = tokenChecks]
    ELSE [wk EXCEPT !.pc = "exit"]

RetryLoop(wk, r) ==
    IF r < params.MaxRetries
    THEN [wk EXCEPT !.pc = "inflight", !.retry = r, !.checkAt = tokenChecks]
    ELSE NextIteration(wk)

\* chunk := make([]byte, end-start+1): the buffer that is the body of
\* every attempt of the chunk.
ChunkBuffer(start, end) == end - start + 1

RetryLoopRequestChunkTotal(wk, r) ==
    IF r < params.MaxRetries
    THEN LET end == ChunkEnd(wk.start, params.FileSize, params.ChunkSize)
         IN  {Request("chunk", wk.start, end, ChunkBuffer(wk.start, end), EmptyToken,
                      ChunkBuffer(wk.start, end))}
    ELSE {}

RetryLoopRequest(wk, r) ==
    IF r < params.MaxRetries
    THEN LET end == ChunkEnd(wk.start, params.FileSize, params.ChunkSize)
         IN  {Request("chunk", wk.start, end, params.FileSize, EmptyToken,
                      ChunkBuffer(wk.start, end))}
    ELSE {}

\* What the retry loop sends on errChan after an attempt: nothing, whether
\* the attempt failed or not and whether it was the last one or not.
AttemptErrorsReported(wk, success) == IF success THEN <<>> ELSE <<wk.start>>
AttemptErrors(wk, success) == <<>>

\* uploadChunk returned to the retry loop: on success the loop is left
\* (break) and the worker takes the next offset; otherwise the error is
\* printed, the worker sleeps RetryDelay, and the loop goes on with retry+1.
AfterAttempt(wk, success) ==
    IF success THEN NextIteration(wk) ELSE RetryLoop(wk, wk.retry + 1)

AfterAttemptRequest(wk, success) ==
    IF success THEN {} ELSE RetryLoopRequest(wk, wk.retry + 1)

\* The history after start was received from chunkChan and file.ReadAt
\* returned: ok is FALSE for an error other than io.EOF.
Received(rd, start, ok) ==
    [taken |-> [s \in DOMAIN rd.taken \cup {start} |->
                   IF s = start
                   THEN (IF s \in DOMAIN rd.taken THEN rd.taken[s] ELSE 0) + 1
                   ELSE rd.taken[s]],
     failed |-> IF ok THEN rd.failed ELSE rd.failed \cup {start}]

\* What a worker sends on errChan after file.ReadAt: the error, unless it
\* is nil or io.EOF.
ReadErrorsDropped(start, ok) == <<>>
ReadErrors(start, ok) == IF ok THEN <<>> ELSE <<start>>

W_TakeLast(w) ==
    /\ workers[w].pc = "recv"
    /\ IF chunkChan # <<>>
       THEN /\ chunkChan' = SubSeq(chunkChan, 1, Len(chunkChan) - 1)
            /\ wg' = wg
            /\ LET wk == [workers[w] EXCEPT !.start = chunkChan[Len(chunkChan)]]
               IN  \/ /\ workers' = [workers EXCEPT ![w] = RetryLoop(wk, 0)]
                      /\ requests' = requests \cup RetryLoopRequest(wk, 0)
                      /\ errChan' = errChan \o ReadErrors(wk.start, TRUE)
                      /\ reads' = Received(reads, wk.start, TRUE)
                   \/ /\ Len(errChan) < NumChunks(params.FileSize, params.ChunkSize)
                      /\ errChan' = errChan \o ReadErrors(wk.start, FALSE)
                      /\ workers' = workers
                      /\ requests' = requests
                      /\ reads' = Received(reads, wk.start, FALSE)
       ELSE /\ chanClosed
            /\ workers' = [workers EXCEPT ![w].pc = "exit"]
            /\ wg' = wg - 1
            /\ UNCHANGED <<chunkChan, errChan, requests, reads>>
    /\ UNCHANGED <<now, client, mu, callers, accesses, authIssued, params, upc,
                   loopVar, uploadURL, chanClosed, enqueued, tokenChecks,
                   drive, result>>

\* for start := range chunkChan: a start offset is received, end is
\* computed and the chunk is read with file.ReadAt; a read error other
\* than io.EOF is sent on errChan and the worker continues with the next
\* offset, otherwise the retry loop is entered.  When the channel is closed
\* and empty the worker ends (defer wg.Done()).
W_Take(w) ==
    /\ workers[w].pc = "recv"
    /\ IF chunkChan # <<>>
       THEN /\ chunkChan' = Tail(chunkChan)
            /\ wg' = wg
            /\ LET wk == [workers[w] EXCEPT !.start = Head(chunkChan)]
               IN  \/ /\ workers' = [workers EXCEPT ![w] = RetryLoop(wk, 0)]
                      /\ requests' = requests \cup RetryLoopRequest(wk, 0)
                      /\ errChan' = errChan \o ReadErrors(wk.start, TRUE)
                      /\ reads' = Received(reads, wk.start, TRUE)
                   \/ /\ Len(errChan) < NumChunks(params.FileSize, params.ChunkSize)
                      /\ errChan' = errChan \o ReadErrors(wk.start, FALSE)
                      /\ workers' = workers
                      /\ requests' = requests
                      /\ reads' = Received(reads, wk.start, FALSE)
       ELSE /\ chanClosed
            /\ workers' = [workers EXCEPT ![w].pc = "exit"]
            /\ wg' = wg - 1
            /\ UNCHANGED <<chunkChan, errChan, requests, reads>>
    /\ UNCHANGED <<now, client, mu, callers, accesses, authIssued, params, upc,
                   loopVar, uploadURL, chanClosed, enqueued, tokenChecks,
                   drive, result>>

\* httpClient.Do(req) of uploadChunk returns.  The drive accepts a range
\* exactly when it answers 202 (more expected) or 201 (upload complete).
W_Resp(w) ==
    /\ workers[w].pc = "inflight"
    /\ \/ \E status \in RefusalStatuses :
            LET success == uploadChunk(status)
            IN  /\ drive' = DriveRefuse(drive, workers[w].start)
                /\ workers' = [workers EXCEPT ![w] = AfterAttempt(@, success)]
                /\ requests' = requests \cup AfterAttemptRequest(workers[w], success)
                /\ errChan' = errChan \o AttemptErrors(workers[w], success)
       \/ /\ uploadURL = "url"
          /\ LET d == DriveAccept(drive, workers[w].start)
                 status == IF d.accepted = AllChunks THEN 201 ELSE 202
                 success == uploadChunk(status)
             IN  /\ drive' = d
                 /\ workers' = [workers EXCEPT ![w] = AfterAttempt(@, success)]
                 /\ requests' = requests \cup AfterAttemptRequest(workers[w], success)
                 /\ errChan' = errChan \o AttemptErrors(workers[w], success)
    /\ UNCHANGED <<now, client, mu, callers, accesses, authIssued, params, upc,
                   loopVar, uploadURL, chunkChan, chanClosed, wg, enqueued,
                   tokenChecks, result>>

Init ==
    /\ now = 0
    \* the token of the configuration has expired, or is still valid
    /\ client \in [AccessToken : {ConfigToken}, RefreshToken : {ConfigToken},
                   Expiration : {now, now + 1}]
    /\ mu = {}
    /\ callers = [c \in Callers |-> IdleCaller]
    /\ accesses = {}
    /\ authIssued = 0
    /\ params \in [FileSize : 0..MaxFileSize, ChunkSize : 1..MaxChunkSize,
                   ParallelChunks : 0..MaxParallel, MaxRetries : 0..MaxRetriesBound]
    /\ upc = "start"
    /\ loopVar = 0
    /\ uploadURL = "none"
    /\ chunkChan = <<>>
    /\ chanClosed = FALSE
    /\ errChan = <<>>
    /\ wg = 0
    /\ workers = [w \in Workers |-> IdleWorker]
    /\ enqueued = <<>>
    /\ requests = {}
    /\ tokenChecks = 0
    /\ drive \in [atPath : {"none", "old"}, renamed : {"none"}, session : {"none"},
                  accepted : {{}}, refused : {{}}, lookup : {"none"}]
    /\ result = NoResult
    /\ reads = NoReads
    /\ MainOff

Next ==
    \/ U_Start /\ UNCHANGED <<reads, mainVars, fn>>
    \/ EnsureTokenValid(0, "complete") /\ UNCHANGED <<uploadVars, reads, mainVars, fn>>
    \/ U_TokenChecked /\ UNCHANGED <<reads, mainVars, fn>>
    \/ U_CreateSessionSend /\ UNCHANGED <<reads, mainVars, fn>>
    \/ U_CreateSessionResp /\ UNCHANGED <<reads, mainVars, fn>>
    \/ U_OpenFile /\ UNCHANGED <<reads, mainVars, fn>>
    \/ U_Stat /\ UNCHANGED <<reads, mainVars, fn>>
    \/ U_Spawn /\ UNCHANGED <<reads, mainVars, fn>>
    \/ U_Enqueue /\ UNCHANGED <<reads, mainVars, fn>>
    \/ U_Wait /\ UNCHANGED <<reads, mainVars, fn>>
    \/ U_Select /\ UNCHANGED <<reads, mainVars, fn>>
    \/ U_GetFileIDSend /\ UNCHANGED <<reads, mainVars, fn>>
    \/ U_GetFileIDResp /\ UNCHANGED <<reads, mainVars, fn>>
    \/ \E w \in Workers : W_Take(w) /\ UNCHANGED <<mainVars, fn>>
    \/ \E w \in Workers : W_Resp(w) /\ UNCHANGED <<reads, mainVars, fn>>

Spec == Init /\ [][Next]_vars

\* One Upload while time passes (SpecTime).
NextTime ==
    \/ Next
    \/ Tick /\ UNCHANGED <<uploadVars, reads, mainVars, fn>>

SpecTime == Init /\ [][NextTime]_vars

\* Every goroutine that can take a step is scheduled, and every request
\* and every read that was started returns.
SpecLive == Init /\ [][Next]_vars /\ WF_vars(Next)

\* ------------------------------------------------------------------------
\* Functions of the program, applied to one argument (SpecFn)
\* ------------------------------------------------------------------------

MaxDelta == 8
MaxHashRetries == 2

smallFileSize == 100 * 1024 * 1024
mediumFileSize == 500 * 1024 * 1024
largeFileSize == 1024 * 1024 * 1024

\* getChunkSize with the boundaries excluded from the lower bucket.
getChunkSizeStrict(fileSize) ==
    IF fileSize < smallFileSize THEN 2 * 1024 * 1024
    ELSE IF fileSize < mediumFileSize THEN 4 * 1024 * 1024
    ELSE IF fileSize < largeFileSize THEN 8 * 1024 * 1024
    ELSE 16 * 1024 * 1024

\* switch { case fileSize <= smallFileSize: return 2 MB; ... default: 16 MB }
getChunkSize(fileSize) ==
    IF fileSize <= smallFileSize THEN 2 * 1024 * 1024
    ELSE IF fileSize <= mediumFileSize THEN 4 * 1024 * 1024
    ELSE IF fileSize <= largeFileSize THEN 8 * 1024 * 1024
    ELSE 16 * 1024 * 1024

\* File sizes around the three boundaries, the empty file and a file
\* larger than 1 GB.
FileSizes ==
    {0, 1, 1200000000}
    \cup UNION {(b - MaxDelta)..(b + MaxDelta) :
                   b \in {smallFileSize, mediumFileSize, largeFileSize}}

\* What httpClient.Do may return to uploadChunk: a transport error, or a
\* response with a status code.
ChunkStatuses == {Transport} \cup 199..206 \cup {308, 400, 401, 404, 416, 500, 503}

\* main: if *chunkSize == 0 { *chunkSize = getChunkSize(fileSize) }
SelectChunkSizeKeepFlag(flag, fileSize) == flag
SelectChunkSize(flag, fileSize) ==
    IF flag = 0 THEN getChunkSize(fileSize) ELSE flag

\* The values of the -chunk-size flag: left at 0, or given.
ChunkSizeFlags == {0, 1, 4 * 1024 * 1024}

CallSelectChunkSize ==
    /\ fn.op = "SelectChunkSize"
    /\ ~fn.done
    /\ fn' = [fn EXCEPT !.done = TRUE,
                        !.out = SelectChunkSize(fn.arg.chunkSize, fn.arg.fileSize)]

\* The embedded rclone.conf as seen for one remote name: whether it has
\* the named section, which of the section's keys have a value, whether
\* the value of token is JSON, and within it which fields are there and
\* whether expiry is an RFC 3339 time.
PlainKeys == {"client_id", "client_secret", "drive_id", "drive_type"}
ConfigData ==
    {[section |-> FALSE, keys |-> {}, token |-> "missing", access_token |-> "ok",
      refresh_token |-> "ok", expiry |-> "ok"]}
    \cup [section : {TRUE}, keys : SUBSET PlainKeys, token : {"missing", "malformed"},
          access_token : {"ok"}, refresh_token : {"ok"}, expiry : {"ok"}]
    \cup [section : {TRUE}, keys : SUBSET PlainKeys, token : {"json"},
          access_token : {"ok", "missing"}, refresh_token : {"ok", "missing"},
          expiry : {"ok", "missing", "malformed"}]

\* ParseRcloneConfigData: the key-value pairs of the named section; an
\* error when there is none.
ParseRcloneConfigData(cfg) ==
    LET configMap == IF cfg.section
                     THEN cfg.keys \cup (IF cfg.token = "missing" THEN {} ELSE {"token"})
                     ELSE {}
    IN  [configMap |-> configMap, err |-> IF configMap = {} THEN "config" ELSE "nil"]

\* configMap[key]: the value, or the empty string for an absent key.
ConfigValue(configMap, key) == IF key \in configMap THEN key ELSE ""

\* NewAzureClientFromRcloneConfigData: errors come from the section
\* lookup, from json.Unmarshal of the token and from time.Parse of its
\* expiry; every other field is copied as it is.
NewAzureClientFromRcloneConfigData(cfg) ==
    LET parsed == ParseRcloneConfigData(cfg)
        value(key) == ConfigValue(parsed.configMap, key)
    IN  IF parsed.err # "nil" THEN [err |-> "config", client |-> "nil"]
        ELSE IF cfg.token # "json" THEN [err |-> "token", client |-> "nil"]
        ELSE IF cfg.expiry # "ok" THEN [err |-> "expiry", client |-> "nil"]
        ELSE [err |-> "nil",
              client |-> [ClientID |-> value("client_id"),
                          ClientSecret |-> value("client_secret"),
                          AccessToken |-> IF cfg.access_token = "ok"
                                          THEN "access_token" ELSE "",
                          RefreshToken |-> IF cfg.refresh_token = "ok"
                                           THEN "refresh_token" ELSE "",
                          DriveID |-> value("drive_id"),
                          DriveType |-> value("drive_type")]]

CallNewAzureClient ==
    /\ fn.op = "NewAzureClientFromRcloneConfigData"
    /\ ~fn.done
    /\ fn' = [fn EXCEPT !.done = TRUE,
                        !.out = NewAzureClientFromRcloneConfigData(fn.arg)]

\* What file.ReadAt(chunk, start) may return as its error: nil, io.EOF
\* (fewer bytes than len(chunk) were left in the file), or another error.
ReadAtErrors == {"nil", "EOF", "other"}

\* if err != nil && err != io.EOF { errChan <- ...; continue }
ReadFailed(err) == err # "nil" /\ err # "EOF"

\* One iteration of a worker up to the retry loop, for the chunk at start
\* of a file whose size was fileSize at Stat: the range is computed, the
\* buffer of end-start+1 bytes is made and read into, and either the error
\* is sent on errChan and the worker continues with the next offset, or
\* the retry loop uploads the buffer.
ReadChunk(start, fileSize, chunkSize, err) ==
    LET end == ChunkEnd(start, fileSize, chunkSize)
    IN  [start |-> start, end |-> end, bufferLen |-> end - start + 1,
         final |-> end = fileSize - 1,
         next |-> IF ReadFailed(err) THEN "continue" ELSE "upload"]

\* The chunks of the files up to MaxFileSize with every error of ReadAt.
ReadChunkArgs ==
    {a \in [start : 0..MaxFileSize, fileSize : 1..MaxFileSize,
            chunkSize : 1..MaxChunkSize, err : ReadAtErrors] :
        a.start \in ChunkStarts(a.fileSize, a.chunkSize)}

CallReadChunk ==
    /\ fn.op = "ReadChunk"
    /\ ~fn.done
    /\ fn' = [fn EXCEPT !.done = TRUE,
                        !.out = ReadChunk(fn.arg.start, fn.arg.fileSize,
                                          fn.arg.chunkSize, fn.arg.err)]

\* The outcomes of the attempts a retry loop can make: for each limit up
\* to maxLimit, whether attempt 1, 2, ... succeeds.
AttemptOutcomes(maxLimit) ==
    UNION {[limit : {n}, succeeds : [1..n -> BOOLEAN]] : n \in 0..maxLimit}

\* The loop has made no attempt yet: retry := 0.
LoopStart == [retry |-> 0, attempts |-> 0, sleeps |-> 0, success |-> FALSE]

\* One iteration of the retry loop of a worker:
\* for retry := 0; retry < params.MaxRetries; retry++ {
\*     success, err := client.uploadChunk(...); if success { break }
\*     fmt.Printf(...); time.Sleep(params.RetryDelay) }
UploadRetryIteration ==
    /\ fn.op = "uploadRetryLoop"
    /\ ~fn.done
    /\ IF fn.out.retry < fn.arg.limit
       THEN IF fn.arg.succeeds[fn.out.retry + 1]
            THEN fn' = [fn EXCEPT !.done = TRUE,
                                  !.out.attempts = @ + 1,
                                  !.out.success = TRUE]
            ELSE fn' = [fn EXCEPT !.out.attempts = @ + 1,
                                  !.out.sleeps = @ + 1,
                                  !.out.retry = @ + 1]
       ELSE fn' = [fn EXCEPT !.done = TRUE]

\* One iteration of the loop of getQuickXorHashWithRetry:
\* for retry := 0; retry < maxRetries; retry++ {
\*     remoteHash, err := client.GetQuickXorHash(...)
\*     if err == nil { return remoteHash, nil }
\*     fmt.Printf(...); time.Sleep(retryDelay) }
\* return "", fmt.Errorf(...)
HashRetryIteration ==
    /\ fn.op = "getQuickXorHashWithRetry"
    /\ ~fn.done
    /\ IF fn.out.retry < fn.arg.limit
       THEN IF fn.arg.succeeds[fn.out.retry + 1]
            THEN fn' = [fn EXCEPT !.done = TRUE,
                                  !.out.attempts = @ + 1,
                                  !.out.success = TRUE]
            ELSE fn' = [fn EXCEPT !.out.attempts = @ + 1,
                                  !.out.sleeps = @ + 1,
                                  !.out.retry = @ + 1]
       ELSE fn' = [fn EXCEPT !.done = TRUE]

\* Go's integer division a / b for b # 0: the quotient is truncated
\* toward zero.
Abs(n) == IF n < 0 THEN -n ELSE n
GoDiv(a, b) ==
    IF (a >= 0) = (b > 0) THEN Abs(a) \div Abs(b) ELSE -(Abs(a) \div Abs(b))

\* numChunks := (fileSize + chunkSize - 1) / chunkSize
\* chunkChan := make(chan int64, numChunks)
\* errChan := make(chan error, numChunks)
\* A division by zero and a negative channel size are run-time panics,
\* which nothing in the program recovers from.
MakeChannels(fileSize, chunkSize) ==
    IF chunkSize = 0
    THEN [panic |-> "integer divide by zero", capacity |-> 0]
    ELSE LET numChunks == GoDiv(fileSize + chunkSize - 1, chunkSize)
         IN  IF numChunks < 0
             THEN [panic |-> "makechan: size out of range", capacity |-> 0]
             ELSE [panic |-> "none", capacity |-> numChunks]

CallMakeChannels ==
    /\ fn.op = "MakeChannels"
    /\ ~fn.done
    /\ fn' = [fn EXCEPT !.done = TRUE,
                        !.out = MakeChannels(fn.arg.fileSize, fn.arg.chunkSize)]

CallGetChunkSize ==
    /\ fn.op = "getChunkSize"
    /\ ~fn.done
    /\ fn' = [fn EXCEPT !.done = TRUE, !.out = getChunkSize(fn.arg)]

CallUploadChunk ==
    /\ fn.op = "uploadChunk"
    /\ ~fn.done
    /\ fn' = [fn EXCEPT !.done = TRUE, !.out = uploadChunk(fn.arg)]

InitFn ==
    /\ now = 0
    /\ client = [AccessToken |-> ConfigToken, RefreshToken |-> ConfigToken,
                 Expiration |-> 1]
    /\ mu = {}
    /\ callers = [c \in Callers |-> IdleCaller]
    /\ accesses = {}
    /\ authIssued = 0
    /\ UploadOff
    /\ flags = NoFlags
    /\ mpc = "off"
    /\ hashRetry = 0
    /\ hashFetches = <<>>
    /\ output = <<>>
    /\ fn \in [op : {"getChunkSize"}, arg : FileSizes, done : {FALSE}, out : {0}]
             \cup [op : {"uploadChunk"}, arg : ChunkStatuses, done : {FALSE},
                   out : {FALSE}]
             \cup [op : {"NewAzureClientFromRcloneConfigData"}, arg : ConfigData,
                   done : {FALSE}, out : {0}]
             \cup [op : {"ReadChunk"}, arg : ReadChunkArgs, done : {FALSE}, out : {0}]
             \cup [op : {"uploadRetryLoop"}, arg : AttemptOutcomes(MaxRetriesBound),
                   done : {FALSE}, out : {LoopStart}]
             \cup [op : {"getQuickXorHashWithRetry"},
                   arg : AttemptOutcomes(MaxHashRetries),
                   done : {FALSE}, out : {LoopStart}]
             \cup [op : {"MakeChannels"},
                   arg : [fileSize : 0..MaxFileSize,
                          chunkSize : (-MaxChunkSize)..MaxChunkSize],
                   done : {FALSE}, out : {0}]
             \cup [op : {"SelectChunkSize"},
                   arg : [chunkSize : ChunkSizeFlags, fileSize : FileSizes],
                   done : {FALSE}, out : {0}]

NextFn ==
    \/ CallMakeChannels /\ UNCHANGED <<credVars, uploadVars, reads, mainVars>>
    \/ UploadRetryIteration /\ UNCHANGED <<credVars, uploadVars, reads, mainVars>>
    \/ HashRetryIteration /\ UNCHANGED <<credVars, uploadVars, reads, mainVars>>
    \/ CallReadChunk /\ UNCHANGED <<credVars, uploadVars, reads, mainVars>>
    \/ CallNewAzureClient /\ UNCHANGED <<credVars, uploadVars, reads, mainVars>>
    \/ CallSelectChunkSize /\ UNCHANGED <<credVars, uploadVars, reads, mainVars>>
    \/ CallGetChunkSize /\ UNCHANGED <<credVars, uploadVars, reads, mainVars>>
    \/ CallUploadChunk /\ UNCHANGED <<credVars, uploadVars, reads, mainVars>>

SpecFn == InitFn /\ [][NextFn]_vars

\* ------------------------------------------------------------------------
\* The two earlier versions of Upload, which return a success flag, run on
\* the same outcomes of the reads and of the chunk attempts (SpecVersions)
\* ------------------------------------------------------------------------

\* A file, a chunk size, a retry limit, and for every chunk whether its
\* ReadAt succeeds and whether its attempt number k is accepted.
VersionArgs ==
    UNION {[fileSize : {F}, chunkSize : {C}, maxRetries : {M},
            readOK : [ChunkStarts(F, C) -> BOOLEAN],
            attemptOK : [ChunkStarts(F, C) \X (1..M) -> BOOLEAN]] :
              F \in 0..MaxFileSize, C \in 1..MaxChunkSize, M \in 0..MaxRetriesBound}

\* for retry := 0; retry < params.MaxRetries; retry++ {
\*     success, err := client.uploadChunk(...); if success { ...; break } ... }
\* The loop ends with the first accepted attempt, or after maxRetries
\* refused ones.
RetryLoopResult(arg, start) ==
    LET accepted == {k \in 1..arg.maxRetries : arg.attemptOK[<<start, k>>]}
    IN  [success |-> accepted # {},
         attempts |-> IF accepted = {} THEN arg.maxRetries
                      ELSE CHOOSE k \in accepted : \A j \in accepted : k <= j]

VersionsStart ==
    [seq |-> [chunkStart |-> 0, verdict |-> "running", requested |-> {}],
     pool |-> [start |-> 0, errChan |-> 0, verdict |-> "running", requested |-> {}]]

\* The sequential version: one iteration of 'for chunkStart < fileSize',
\* or the return after the loop.
SeqUploadIteration ==
    /\ fn.op = "Upload"
    /\ fn.out.seq.verdict = "running"
    /\ LET arg == fn.arg
           st == fn.out.seq
           chunkEnd == ChunkEnd(st.chunkStart, arg.fileSize, arg.chunkSize)
           loop == RetryLoopResult(arg, st.chunkStart)
       IN  fn' = [fn EXCEPT !.out.seq =
                     IF ~(st.chunkStart < arg.fileSize)
                     THEN [st EXCEPT !.verdict = "true"]
                     ELSE IF ~arg.readOK[st.chunkStart]
                     THEN [st EXCEPT !.verdict = "false"]
                     ELSE IF ~loop.success
                     THEN [st EXCEPT !.verdict = "false",
                                     !.requested = IF loop.attempts > 0
                                                   THEN @ \cup {st.chunkStart} ELSE @]
                     ELSE [st EXCEPT !.chunkStart = chunkEnd + 1,
                                     !.requested = @ \cup {st.chunkStart}]]

\* The worker-pool version with ParallelChunks = 1: one iteration of the
\* worker's 'for start := range chunkChan' on the offsets sent in the order
\* 0, chunkSize, 2*chunkSize, ..., or, when the channel is closed and
\* drained, the end of the worker, wg.Wait() and the select on errChan.
PoolUploadIteration ==
    /\ fn.op = "Upload"
    /\ fn.out.pool.verdict = "running"
    /\ LET arg == fn.arg
           st == fn.out.pool
           loop == RetryLoopResult(arg, st.start)
       IN  fn' = [fn EXCEPT !.out.pool =
                     IF ~(st.start < arg.fileSize)
                     THEN [st EXCEPT !.verdict = IF st.errChan > 0 THEN "false"
                                                 ELSE "true"]
                     ELSE IF ~arg.readOK[st.start]
                     THEN [st EXCEPT !.errChan = @ + 1,
                                     !.start = @ + arg.chunkSize]
                     ELSE [st EXCEPT !.start = @ + arg.chunkSize,
                                     !.requested = IF loop.attempts > 0
                                                   THEN @ \cup {st.start} ELSE @]]

InitVersions ==
    /\ now = 0
    /\ client = [AccessToken |-> ConfigToken, RefreshToken |-> ConfigToken,
                 Expiration |-> 1]
    /\ mu = {}
    /\ callers = [c \in Callers |-> IdleCaller]
    /\ accesses = {}
    /\ authIssued = 0
    /\ UploadOff
    /\ flags = NoFlags
    /\ mpc = "off"
    /\ hashRetry = 0
    /\ hashFetches = <<>>
    /\ output = <<>>
    /\ fn \in [op : {"Upload"}, arg : VersionArgs, done : {FALSE},
                out : {VersionsStart}]

NextVersions ==
    \/ SeqUploadIteration /\ UNCHANGED <<credVars, uploadVars, reads, mainVars>>
    \/ PoolUploadIteration /\ UNCHANGED <<credVars, uploadVars, reads, mainVars>>

SpecVersions == InitVersions /\ [][NextVersions]_vars

\* ------------------------------------------------------------------------
\* main after Upload has returned: report and hash verification (SpecMain)
\* ------------------------------------------------------------------------

\* The results Upload returns: a file ID with a nil error, or the empty ID
\* with an error.
UploadResults ==
    [id : {"new", "old"}, err : {"nil"}]
    \cup [id : {""}, err : {"auth", "session", "open", "stat", "upload", "fileid"}]

\* What the drive may answer to the metadata request of GetQuickXorHash: a
\* transport error, a refusal, or 200 with a body that cannot be decoded,
\* has no quickXorHash (not computed yet), or carries the hash of the
\* local file or another one.
HashResponses ==
    [status : RefusalStatuses, body : {"error"}]
    \cup [status : {200}, body : {"undecodable", "", "samehash", "otherhash"}]

\* GetQuickXorHash returned before it sent its request.
NoRequest == [status |-> Transport, body |-> "norequest"]

\* GetQuickXorHash without the check of the decoded quickXorHash.
GetQuickXorHashResultNoFieldCheck(r) ==
    IF r.status = Transport THEN [hash |-> "", err |-> "transport"]
    ELSE IF ~StatusOK(r.status) THEN [hash |-> "", err |-> "status"]
    ELSE IF r.body = "undecodable" THEN [hash |-> "", err |-> "parse"]
    ELSE [hash |-> r.body, err |-> "nil"]

\* GetQuickXorHash after httpClient.Do: a transport error, a status other
\* than 200, an undecodable body and an empty quickXorHash are errors.
GetQuickXorHashResult(r) ==
    IF r.status = Transport THEN [hash |-> "", err |-> "transport"]
    ELSE IF ~StatusOK(r.status) THEN [hash |-> "", err |-> "status"]
    ELSE IF r.body = "undecodable" THEN [hash |-> "", err |-> "parse"]
    ELSE IF r.body = "" THEN [hash |-> "", err |-> "nohash"]
    ELSE [hash |-> r.body, err |-> "nil"]

\* main returns.
Exit(lines) ==
    /\ output' = output \o lines
    /\ mpc' = "exit"

\* What main prints when getQuickXorHashWithRetry returned an error.
HashUnavailableFatal == <<"upload_failed">>
HashUnavailable == <<"remote_hash_failed">>

\* main without the test of -skip-hash.
Main_UploadReturnedIgnoreSkip ==
    /\ mpc = "upload_ret"
    /\ IF result.err # "nil"
       THEN Exit(<<"upload_failed">>)
       ELSE IF result.id = ""
       THEN Exit(<<"file_id", "upload_failed">>)
       ELSE /\ output' = output \o <<"file_id", "uploaded", "download_url">>
            /\ mpc' = "local_hash"
    /\ UNCHANGED <<credVars, flags, hashRetry, hashFetches>>

\* fileID, err := client.Upload(httpClient, params) has returned: the
\* failure is printed, or the file ID, the success line and the download
\* URL; with -skip-hash main ends here.
Main_UploadReturned ==
    /\ mpc = "upload_ret"
    /\ IF result.err # "nil"
       THEN Exit(<<"upload_failed">>)
       ELSE IF result.id = ""
       THEN Exit(<<"file_id", "upload_failed">>)
       ELSE IF flags.skipHash
       THEN Exit(<<"file_id", "uploaded", "download_url", "hash_skipped">>)
       ELSE /\ output' = output \o <<"file_id", "uploaded", "download_url">>
            /\ mpc' = "local_hash"
    /\ UNCHANGED <<credVars, flags, hashRetry, hashFetches>>

\* localHash, err := QuickXorHash(*filePath)
Main_LocalHash ==
    /\ mpc = "local_hash"
    /\ \/ Exit(<<"local_hash_failed">>) /\ hashRetry' = hashRetry
       \/ mpc' = "hash_loop" /\ hashRetry' = 0 /\ output' = output
    /\ UNCHANGED <<credVars, flags, hashFetches>>

\* for retry := 0; retry < maxRetries; retry++ { client.GetQuickXorHash }:
\* the head of the loop.  GetQuickXorHash starts with EnsureTokenValid;
\* after the loop the error is returned to main, which prints it and
\* returns.
HashRetry_Loop ==
    /\ mpc = "hash_loop"
    /\ IF hashRetry < flags.hashRetries
       THEN /\ callers' = [callers EXCEPT ![0] = Calling("GetQuickXorHash")]
            /\ mpc' = "hash_check"
            /\ output' = output
       ELSE /\ Exit(HashUnavailable)
            /\ callers' = callers
    /\ UNCHANGED <<now, client, mu, accesses, authIssued, flags, hashRetry,
                   hashFetches>>

\* One call of GetQuickXorHash has returned res to the loop, after the
\* answer resp (or without a request): with a nil error the hash is
\* returned to main and compared with the local one; otherwise the error
\* is printed, the loop sleeps retryDelay and goes on with retry+1.
HashFetched(resp, res) ==
    /\ hashFetches' = Append(hashFetches, [resp |-> resp, err |-> res.err,
                                           hash |-> res.hash])
    /\ IF res.err = "nil"
       THEN /\ Exit(IF res.hash = "samehash" THEN <<"verified">> ELSE <<"mismatch">>)
            /\ hashRetry' = hashRetry
       ELSE /\ hashRetry' = hashRetry + 1
            /\ mpc' = "hash_loop"
            /\ output' = output

\* GetQuickXorHash: EnsureTokenValid has returned; its error is returned,
\* or the GET is sent with "Bearer "+client.AccessToken.
GQXH_TokenChecked ==
    /\ mpc = "hash_check"
    /\ callers[0].pc = "etv_ret"
    /\ callers' = [callers EXCEPT ![0].pc = "done"]
    /\ IF TokenCheckFailed(callers[0].err)
       THEN /\ HashFetched(NoRequest, [hash |-> "", err |-> "auth"])
            /\ accesses' = accesses
       ELSE /\ accesses' = accesses \cup
                   {Access(0, "GetQuickXorHash", "AccessToken", "read")}
            /\ mpc' = "hash_wait"
            /\ UNCHANGED <<hashRetry, hashFetches, output>>
    /\ UNCHANGED <<now, client, mu, authIssued, flags>>

\* GetQuickXorHash: httpClient.Do(req) returns.
GQXH_Response ==
    /\ mpc = "hash_wait"
    /\ \E r \in HashResponses : HashFetched(r, GetQuickXorHashResult(r))
    /\ UNCHANGED <<credVars, flags>>

InitMain ==
    /\ now = 0
    /\ client \in [AccessToken : {ConfigToken}, RefreshToken : {ConfigToken},
                   Expiration : 0..MaxTime]
    /\ mu = {}
    /\ callers = [c \in Callers |-> IdleCaller]
    /\ accesses = {}
    /\ authIssued = 0
    /\ \E res \in UploadResults : UploadIdle("done", res)
    /\ flags \in [skipHash : BOOLEAN, hashRetries : 0..MaxHashRetries]
    /\ mpc = "upload_ret"
    /\ hashRetry = 0
    /\ hashFetches = <<>>
    /\ output = <<>>
    /\ fn = NoCall

NextMain ==
    \/ Main_UploadReturned /\ UNCHANGED <<uploadVars, reads, fn>>
    \/ Main_LocalHash /\ UNCHANGED <<uploadVars, reads, fn>>
    \/ HashRetry_Loop /\ UNCHANGED <<uploadVars, reads, fn>>
    \/ EnsureTokenValid(0, "any") /\ UNCHANGED <<uploadVars, reads, mainVars, fn>>
    \/ GQXH_TokenChecked /\ UNCHANGED <<uploadVars, reads, fn>>
    \/ GQXH_Response /\ UNCHANGED <<uploadVars, reads, fn>>
    \/ Tick /\ UNCHANGED <<uploadVars, reads, mainVars, fn>>

SpecMain == InitMain /\ [][NextMain]_vars

\* ------------------------------------------------------------------------
\* Properties
\* ------------------------------------------------------------------------

Done == upc = "done"
Succeeded == Done /\ result.err = "nil"
ResolveRequests == {r \in requests : r.kind = "resolve"}
ItemCreated == drive.atPath = "new" \/ drive.renamed = "new"

\* C1: Upload (with at least one worker and one attempt per chunk) returns
\* success, a nil error and a file ID, only if every chunk of the file had
\* an attempt that the server accepted.
C1_SuccessOnlyIfEveryChunkAccepted ==
    (Succeeded /\ params.ParallelChunks >= 1 /\ params.MaxRetries >= 1)
    => (result.id # "" /\ chanClosed /\ AllChunks \subseteq drive.accepted)

\* A worker issues a chunk request in this step.
IssuesChunkRequest(w) ==
    /\ workers'[w].pc = "inflight"
    /\ workers[w].pc # "inflight" \/ workers'[w].retry # workers[w].retry

\* C2: every chunk request of a worker is preceded by a token validity
\* check made after the previous chunk attempt of that worker.
C2_ValidityCheckedBeforeEveryAttempt ==
    [][\A w \in Workers : IssuesChunkRequest(w) => workers[w].checkAt < tokenChecks]_vars

\* C3: no credential field of the client is read or written by a goroutine
\* that does not hold the client's mutex.
C3_CredentialsOnlyUnderMutex ==
    \A a \in accesses : a.held

\* ceil(F / C), for F >= 0 and C > 0
CeilDiv(F, C) == CHOOSE n \in 0..F : n * C >= F /\ (n = 0 \/ (n - 1) * C < F)

\* The end offset a worker computes for the i-th enqueued start offset.
RangeEnd(i) == ChunkEnd(enqueued[i], params.FileSize, params.ChunkSize)

\* C4: the enqueued start offsets with the end offsets the workers compute
\* partition [0, F): ceil(F/C) ranges, the first starts at 0, each starts
\* where the previous one ended plus one, the last ends at F-1; every chunk
\* request carries one of these ranges.
C4_ChunksPartitionFile ==
    /\ chanClosed =>
          /\ Len(enqueued) = CeilDiv(params.FileSize, params.ChunkSize)
          /\ params.FileSize = 0 => enqueued = <<>>
          /\ params.FileSize > 0 =>
                /\ enqueued[1] = 0
                /\ RangeEnd(Len(enqueued)) = params.FileSize - 1
          /\ \A i \in 1..Len(enqueued) : enqueued[i] <= RangeEnd(i)
          /\ \A i \in 1..(Len(enqueued) - 1) : enqueued[i + 1] = RangeEnd(i) + 1
    /\ \A r \in ChunkRequests :
          \E i \in 1..Len(enqueued) : r.start = enqueued[i] /\ r.end = RangeEnd(i)

\* C4 witness: a file of several chunks whose last chunk is shorter than
\* the chunk size has been enqueued, and its last range was requested.
C4_Witness ==
    /\ chanClosed
    /\ Len(enqueued) >= 2
    /\ params.FileSize % params.ChunkSize # 0
    /\ \E r \in ChunkRequests : /\ r.end = params.FileSize - 1
                                /\ r.end - r.start + 1 < params.ChunkSize

\* C5: when the token check and the session opening succeeded, every chunk
\* of the file was accepted by the server and the item resolution did not
\* fail, Upload returns success with the resolved identifier.
C5_AcceptedAndResolvedGivesSuccess ==
    (/\ Done
     /\ callers[0].err = "nil"
     /\ drive.session = "open"
     /\ chanClosed
     /\ AllChunks \subseteq drive.accepted
     /\ drive.lookup # "failed")
    => (result.err = "nil" /\ result.id # "" /\ result.id = drive.lookup)

\* C5 witness: Upload succeeded on a file of several chunks, one of which
\* was refused at least once before it was accepted.
C5_Witness ==
    /\ Succeeded
    /\ Cardinality(AllChunks) >= 2
    /\ AllChunks \subseteq drive.accepted
    /\ drive.refused \cap drive.accepted # {}

\* C6: EnsureTokenValid returns without a refresh exchange when
\* now < expiry, and with exactly one when the token is expired, after
\* which now < new expiry holds.
C6_RefreshCountAndFreshExpiry ==
    [][\A c \in Callers :
          (callers[c].pc # "etv_ret" /\ callers'[c].pc = "etv_ret"
              /\ callers'[c].err = "nil") =>
             IF callers[c].pc = "etv_check"
             THEN now < client.Expiration /\ callers'[c].refreshes = 0
             ELSE callers'[c].refreshes = 1 /\ now' < client'.Expiration]_vars

\* C7: when the session-open request gets a non-success response, Upload
\* returns an error and no chunk request is issued.
C7_SessionRefusedNoChunk ==
    drive.session = "refused" =>
        (Done /\ result.err # "nil" /\ result.id = "" /\ ChunkRequests = {})

\* C7 witness: the session was refused for a non-empty file with workers
\* and retries configured.
C7_Witness ==
    /\ drive.session = "refused"
    /\ Done
    /\ params.FileSize > 0 /\ params.ParallelChunks > 0 /\ params.MaxRetries > 0

\* C8: when the token refresh at the start of Upload fails, Upload returns
\* an error and issues no session-open, chunk or item-resolution request.
C8_RefreshFailureStopsUpload ==
    callers[0].err = "refresh" =>
        /\ requests = {}
        /\ upc \in {"check", "done"}
        /\ Done => (result.err # "nil" /\ result.id = "")

\* C8 witness: Upload has returned after a failed refresh exchange.
C8_Witness ==
    /\ callers[0].err = "refresh"
    /\ callers[0].refreshes = 1
    /\ Done
    /\ params.FileSize > 0 /\ params.ParallelChunks > 0 /\ params.MaxRetries > 0

\* C9: the item-resolution request (of an Upload with at least one worker
\* and one attempt per chunk) is issued only when every chunk has an
\* accepted attempt.
C9_LookupOnlyAfterAllChunksAccepted ==
    (ResolveRequests # {} /\ params.ParallelChunks >= 1 /\ params.MaxRetries >= 1)
    => AllChunks \subseteq drive.accepted

\* C10: when Upload succeeds and the upload created an item, the identifier
\* returned is the identifier of that item, also when the remote path
\* already held an item.
C10_ReturnedIdIsTheUploadedItem ==
    (Succeeded /\ ItemCreated) => result.id = "new"

\* C11: when every chunk of the file was accepted but the item resolution
\* got a non-success response, an undecodable body or an empty identifier,
\* Upload returns an error and the empty identifier.
C11_ResolutionFailureIsAnError ==
    (Done /\ AllChunks \subseteq drive.accepted /\ drive.lookup = "failed")
    => (result.err = "fileid" /\ result.id = "")

C11_Witness ==
    /\ Done
    /\ AllChunks # {}
    /\ AllChunks \subseteq drive.accepted
    /\ ItemCreated
    /\ drive.lookup = "failed"
    /\ result.err = "fileid"

\* C12: uploadChunk reports success exactly when the response status is
\* 201 or 202; every other status and a transport failure is a failed
\* attempt.
C12_SuccessExactlyOnAcceptanceCodes ==
    (fn.op = "uploadChunk" /\ fn.done)
    => (fn.out <=> (fn.arg = 201 \/ fn.arg = 202))

C12_Witness == fn.op = "uploadChunk" /\ fn.done /\ fn.arg = 200 /\ fn.out = FALSE

\* C20: getChunkSize gives 2 MB up to 100 MB, 4 MB up to 500 MB, 8 MB up to
\* 1 GB and 16 MB above; each boundary belongs to the lower bucket.
C20_ChunkSizeIsAStepFunction ==
    (fn.op = "getChunkSize" /\ fn.done)
    => /\ fn.arg <= 104857600 => fn.out = 2097152
       /\ (104857600 < fn.arg /\ fn.arg <= 524288000) => fn.out = 4194304
       /\ (524288000 < fn.arg /\ fn.arg <= 1073741824) => fn.out = 8388608
       /\ 1073741824 < fn.arg => fn.out = 16777216

C20_Witness ==
    fn.op = "getChunkSize" /\ fn.done /\ fn.arg = 1073741824 /\ fn.out = 8388608

\* C13: the attempts for a chunk are made one after another by the worker
\* that received it, until the first accepted attempt or until MaxRetries
\* attempts were made: a refused attempt is followed by the next attempt
\* for the same chunk while fewer than MaxRetries were made, an accepted
\* one by none, and after MaxRetries refused attempts the chunk is given
\* up and never attempted again.
AttemptReturned(w) == workers[w].pc = "inflight" /\ workers'[w] # workers[w]
C13_RetryUntilAcceptedOrLimit ==
    [][/\ \A w \in Workers :
             AttemptReturned(w) =>
                 IF workers[w].start \in drive'.accepted
                 THEN workers'[w].pc # "inflight"
                 ELSE IF workers[w].retry + 1 < params.MaxRetries
                 THEN /\ workers'[w].pc = "inflight"
                      /\ workers'[w].start = workers[w].start
                      /\ workers'[w].retry = workers[w].retry + 1
                 ELSE workers'[w].pc # "inflight"
       /\ \A w \in Workers :
             workers'[w].pc = "inflight" =>
                 /\ workers'[w].retry < params.MaxRetries
                 /\ workers'[w].start \notin drive'.accepted
                 /\ \A v \in Workers \ {w} :
                       workers'[v].pc = "inflight"
                       => workers'[v].start # workers'[w].start
       /\ \A s \in DOMAIN reads'.taken : reads'.taken[s] = 1]_vars

C13_Witness ==
    /\ Done
    /\ params.MaxRetries >= 2
    /\ \E s \in AllChunks : s \in drive.refused /\ s \notin drive.accepted
    /\ \E s \in AllChunks : s \in drive.refused /\ s \in drive.accepted

\* C14: a chunk whose read from the source file failed is never sent, and
\* once a read has failed Upload issues no item lookup and returns an
\* error with the empty identifier, whatever happened to the other chunks.
C14_ReadFailureFailsTheUpload ==
    /\ \A s \in reads.failed :
          /\ s \notin drive.accepted \cup drive.refused
          /\ \A r \in ChunkRequests : r.start # s
    /\ reads.failed # {} =>
          /\ ResolveRequests = {}
          /\ Done => (result.err = "upload" /\ result.id = "")

C14_Witness ==
    /\ Done
    /\ result.err = "upload"
    /\ reads.failed # {}
    /\ \E s \in AllChunks \ reads.failed : s \in drive.accepted
    /\ \E s \in AllChunks \ reads.failed : s \in drive.refused \ drive.accepted

\* C15: EnsureTokenValid returns an error whenever the refresh response
\* has a non-success status or lacks the access token, the refresh token
\* or the lifetime, and then leaves the credentials of the client as they
\* were.
C15_MalformedResponseIsRejected ==
    [][\A c \in Callers :
          (callers[c].pc = "etv_install" /\ callers'[c].pc # "etv_install")
          => /\ callers[c].resp.at # EmptyToken
             /\ callers[c].resp.rt # EmptyToken
             /\ callers[c].resp.exp > 0]_vars

Printed(line) == \E i \in 1..Len(output) : output[i] = line
FetchFailed(i) == hashFetches[i].err # "nil"
HashLoopReturned == mpc = "exit" /\ ~Printed("hash_skipped") /\ ~Printed("local_hash_failed")

\* C16: when Upload succeeded and every fetch of the remote hash failed,
\* main reports that the remote hash could not be retrieved and returns;
\* the file ID and the success line printed after Upload stay, in this
\* order, and no upload failure is reported.
C16_HashFailureKeepsUploadSuccess ==
    (/\ HashLoopReturned
     /\ result.err = "nil"
     /\ \A i \in 1..Len(hashFetches) : FetchFailed(i))
    => /\ output = <<"file_id", "uploaded", "download_url", "remote_hash_failed">>
       /\ result.id # ""

C16_Witness ==
    /\ HashLoopReturned
    /\ result.err = "nil"
    /\ Len(hashFetches) >= 2
    /\ \A i \in 1..Len(hashFetches) : FetchFailed(i)
    /\ Printed("remote_hash_failed")

\* C17: getQuickXorHashWithRetry calls GetQuickXorHash at most hashRetries
\* times; a response without the hash field is a failed fetch; the first
\* fetch with a nil error is the last one and its hash is the one main
\* compares; when the loop returns without such a fetch, hashRetries
\* fetches have failed and an error is reported.
C17_HashFetchedUpToHashRetriesTimes ==
    /\ Len(hashFetches) <= flags.hashRetries
    /\ Len(hashFetches) =
          hashRetry + (IF Printed("verified") \/ Printed("mismatch") THEN 1 ELSE 0)
    /\ \A i \in 1..Len(hashFetches) :
          /\ hashFetches[i].resp.body = "" => FetchFailed(i)
          /\ ~FetchFailed(i)
             => /\ i = Len(hashFetches)
                /\ mpc = "exit"
                /\ hashFetches[i].hash = hashFetches[i].resp.body
                /\ Printed("verified") <=> (hashFetches[i].hash = "samehash")
                /\ Printed("mismatch") <=> (hashFetches[i].hash # "samehash")
                /\ ~Printed("remote_hash_failed")
    /\ (HashLoopReturned /\ result.err = "nil"
        /\ \A i \in 1..Len(hashFetches) : FetchFailed(i))
       => (Len(hashFetches) = flags.hashRetries /\ Printed("remote_hash_failed"))

C17_Witness ==
    /\ mpc = "exit"
    /\ Len(hashFetches) = 2
    /\ hashFetches[1].resp.status = 200
    /\ hashFetches[1].resp.body = ""
    /\ hashFetches[2].err = "nil"
    /\ Printed("verified")

\* C18: the hash retry loop retries only failed fetches: a token refresh
\* failure inside GetQuickXorHash or a response that cannot be parsed ends
\* the loop at once, so that such a fetch is the last one.
C18_UnrelatedErrorsEndTheLoop ==
    \A i \in 1..Len(hashFetches) :
        hashFetches[i].err \in {"auth", "parse"} => i = Len(hashFetches)

\* C19: with at least one worker, every start offset is received from the
\* queue exactly once, hence by one worker; and in a run in which no read,
\* no chunk attempt and no item lookup fails, no byte range is requested a
\* second time and Upload ends with every range requested, every range
\* accepted, and success.
NoRangeRequested(start) == \A r \in ChunkRequests : r.start # start
NothingFailed == drive.refused = {} /\ reads.failed = {} /\ drive.lookup # "failed"
C19_EachRangeUploadedExactlyOnce ==
    [][params.ParallelChunks >= 1 =>
          /\ \A s \in DOMAIN reads'.taken : reads'.taken[s] = 1
          /\ (chanClosed' /\ upc' \in {"select", "resolve", "resolve_wait", "done"})
             => DOMAIN reads'.taken = AllChunks
          /\ \A w \in Workers :
                (IssuesChunkRequest(w) /\ NothingFailed')
                => NoRangeRequested(workers'[w].start)
          /\ (Done' /\ drive'.session = "open" /\ chanClosed' /\ NothingFailed')
             => /\ {r.start : r \in ChunkRequests'} = AllChunks
                /\ AllChunks \subseteq drive'.accepted
                /\ Succeeded']_vars

\* C21 (as stated): for a file of 1200000000 bytes and the chunk-size flag
\* left at 0, the selected chunk size is 8388608 bytes.
LargeFileDefaultFlag ==
    /\ fn.op = "SelectChunkSize"
    /\ fn.done
    /\ fn.arg.chunkSize = 0
    /\ fn.arg.fileSize = 1200000000
C22_FileIdExactlyOnSuccess ==
    Done => ((result.id # "") <=> (result.err = "nil"))

C22_Witness ==
    /\ Done
    /\ result.err = "nil"
    /\ result.id = "new"
    /\ drive.atPath = "new"

\* C23: main calls GetQuickXorHash only after Upload returned a nil error
\* and a file ID and the success line was printed, and never with
\* -skip-hash; when Upload returned an error, no hash is fetched and no
\* download URL is printed.
HashFetchStarted == callers[0].op = "GetQuickXorHash" \/ hashFetches # <<>>
C23_HashFetchOnlyAfterSuccess ==
    /\ HashFetchStarted =>
          /\ upc = "done"
          /\ result.err = "nil"
          /\ result.id # ""
          /\ ~flags.skipHash
          /\ Printed("uploaded")
    /\ result.err # "nil" =>
          /\ ~HashFetchStarted
          /\ ~Printed("download_url")
          /\ ~Printed("uploaded")
          /\ mpc \in {"upload_ret", "exit"}

C23_Witness ==
    /\ HashFetchStarted
    /\ Len(hashFetches) >= 1
    /\ result.id = "old"
    /\ mpc = "hash_wait"

\* C24: NewAzureClientFromRcloneConfigData returns an error whenever the
\* named section is absent or one of client_id, client_secret, drive_id,
\* drive_type, token, and in the token access_token, refresh_token and
\* expiry, is missing or malformed.
CompleteConfig(cfg) ==
    /\ cfg.section
    /\ cfg.keys = PlainKeys
    /\ cfg.token = "json"
    /\ cfg.access_token = "ok"
    /\ cfg.refresh_token = "ok"
    /\ cfg.expiry = "ok"
C24_IncompleteConfigIsAnError ==
    (fn.op = "NewAzureClientFromRcloneConfigData" /\ fn.done /\ ~CompleteConfig(fn.arg))
    => fn.out.err # "nil"

\* Upload is past wg.Wait(): in the select on errChan, in getFileID, or
\* returned.
AfterJoin == upc \in {"select", "resolve", "resolve_wait"} \/ (Done /\ chanClosed)
InFlight == {w \in Workers : workers[w].pc = "inflight"}
AllWorkersFinished ==
    /\ wg = 0
    /\ \A w \in Workers :
          workers[w].pc = IF w <= params.ParallelChunks THEN "exit" ELSE "off"

\* C25: the errors are inspected and the lookup of the item is made only
\* after chunkChan was closed and every worker has finished; from then on
\* no chunk request is in flight and none is issued, also after Upload has
\* returned.
C25_LookupOnlyAfterJoin ==
    [][/\ AfterJoin' => chanClosed' /\ AllWorkersFinished' /\ InFlight' = {}
       /\ Done' => InFlight' = {}
       /\ (AfterJoin \/ Done) => ChunkRequests' = ChunkRequests
       /\ ResolveRequests' # ResolveRequests => AfterJoin]_vars
C25_Witness ==
    /\ upc = "resolve_wait"
    /\ params.ParallelChunks = 2
    /\ Cardinality({r.start : r \in ChunkRequests}) >= 2
    /\ drive.refused # {}

\* C26: at most ParallelChunks chunk requests are in flight at once, and
\* no two requests in flight are for the same byte range.
C26_AtMostPInFlightOnDistinctRanges ==
    /\ Cardinality(InFlight) <= params.ParallelChunks
    /\ \A v, w \in InFlight : v # w => workers[v].start # workers[w].start
C26_Witness ==
    /\ params.ParallelChunks = 2
    /\ Cardinality(InFlight) = 2
    /\ chunkChan # <<>>
    /\ \E v, w \in InFlight : workers[v].start < workers[w].start

\* The start offset a worker receives from chunkChan in this step.
Receives(start) == start \in DOMAIN reads'.taken /\ start \notin DOMAIN reads.taken

\* C27: with ParallelChunks = 1 the chunks are handled one after the other
\* in ascending order of their start offsets: when an offset is received,
\* every lower offset was received before and no attempt is in flight, and
\* every chunk request is for the offset received last.
C27_OneWorkerUploadsInAscendingOrder ==
    [][params.ParallelChunks = 1 =>
          /\ \A start \in AllChunks :
                Receives(start)
                => /\ DOMAIN reads.taken = {t \in AllChunks : t < start}
                   /\ InFlight = {}
          /\ \A w \in Workers :
                IssuesChunkRequest(w)
                => /\ \A t \in DOMAIN reads'.taken : t <= workers'[w].start
                   /\ \A r \in ChunkRequests : r.start <= workers'[w].start
                   /\ InFlight \subseteq {w}]_vars
C27_Witness ==
    /\ params.ParallelChunks = 1
    /\ workers[1].pc = "inflight"
    /\ workers[1].start > 0
    /\ workers[1].retry = 1
    /\ 0 \in drive.refused
    /\ chunkChan # <<>>

\* The chunk at start has its outcome: its read failed, or the drive
\* accepted it, or its last attempt was refused.
Attempted(start) == \E r \in ChunkRequests : r.start = start
ChunkTerminal(start) ==
    \/ start \in reads.failed /\ ~Attempted(start)
    \/ start \in drive.accepted
    \/ start \in drive.refused /\ Attempted(start)

\* C28: with ParallelChunks >= 1 and MaxRetries >= 1 every chunk gets its
\* own outcome.  A worker leaves a chunk only on success or after attempt
\* number MaxRetries, it then takes the next offset, and it ends only when
\* chunkChan is closed and empty; at the join every offset was received,
\* every chunk that was read was attempted, and every chunk is terminal.
C28_EveryChunkRunsToItsOutcome ==
    [][(params.ParallelChunks >= 1 /\ params.MaxRetries >= 1) =>
          /\ \A w \in Workers :
                /\ (workers[w].pc = "inflight" /\ workers'[w].pc # "inflight")
                   => /\ workers'[w].pc = "recv"
                      /\ \/ workers[w].start \in drive'.accepted
                         \/ workers[w].retry = params.MaxRetries - 1
                /\ (workers[w].pc = "inflight" /\ workers'[w].pc = "inflight")
                   => \/ workers'[w] = workers[w]
                      \/ /\ workers'[w].start = workers[w].start
                         /\ workers'[w].retry = workers[w].retry + 1
                         /\ workers[w].start \notin drive'.accepted
                /\ (workers[w].pc # "exit" /\ workers'[w].pc = "exit")
                   => chanClosed /\ chunkChan = <<>>
          /\ AfterJoin'
             => /\ DOMAIN reads'.taken = AllChunks
                /\ \A start \in AllChunks :
                      /\ ChunkTerminal(start)'
                      /\ start \notin reads'.failed => Attempted(start)']_vars
C28_Witness ==
    /\ Done
    /\ params.ParallelChunks = 1
    /\ params.MaxRetries = 2
    /\ 0 \in reads.failed
    /\ 1 \in drive.refused \ drive.accepted
    /\ 2 \in drive.accepted

\* The result Upload returns for given outcomes of the reads and of the
\* lookup of the item.
Verdict(failedReads, lookup) ==
    IF failedReads # {} THEN [id |-> "", err |-> "upload"]
    ELSE IF lookup = "failed" THEN [id |-> "", err |-> "fileid"]
    ELSE [id |-> lookup, err |-> "nil"]

\* C29: the result of Upload is a function of the outcomes of the reads
\* and of the lookup, and the item the drive holds at the join is a
\* function of the set of accepted ranges: neither depends on the order
\* in which the workers took and completed the chunks.
C29_VerdictIndependentOfInterleaving ==
    /\ (Done /\ chanClosed) => result = Verdict(reads.failed, drive.lookup)
    /\ AfterJoin =>
          /\ reads.failed # {} <=> errChan # <<>> \/ result.err = "upload"
          /\ (drive.lookup # "none") => reads.failed = {}
          /\ ItemCreated <=> (AllChunks # {} /\ drive.accepted = AllChunks)
C29_Witness ==
    /\ Done
    /\ params.ParallelChunks = 2
    /\ params.MaxRetries = 2
    /\ Cardinality(AllChunks) = 3
    /\ Cardinality(reads.failed) = 1
    /\ drive.refused \ drive.accepted # {}
    /\ drive.accepted \ drive.refused # {}
    /\ result = Verdict(reads.failed, drive.lookup)

\* The capacity both channels are made with.
Capacity == NumChunks(params.FileSize, params.ChunkSize)

\* No goroutine of Upload is blocked on a channel send: the producer finds
\* room in chunkChan for every offset, and a worker that received an offset
\* finds room in errChan for the error of its read.
NoSendBlocks ==
    /\ (upc = "enqueue" /\ loopVar < params.FileSize) => Len(chunkChan) < Capacity
    /\ Len(enqueued) <= Capacity
    /\ Len(errChan) <= Cardinality(reads.failed)
    /\ Cardinality(DOMAIN reads.taken) <= Capacity
    /\ \A w \in Workers :
          (workers[w].pc = "recv" /\ chunkChan # <<>>) => Len(errChan) < Capacity

\* C30: for ChunkSize > 0, every ParallelChunks >= 0 and MaxRetries >= 0,
\* no send of Upload blocks, by the time Upload has returned every worker
\* has exited, and Upload always returns.
C30_UploadAlwaysReturns ==
    /\ [](params.ChunkSize > 0 => NoSendBlocks)
    /\ []((Done /\ chanClosed) => AllWorkersFinished)
    /\ <>Done
C30_Witness ==
    /\ Done
    /\ chanClosed
    /\ params.ParallelChunks = 0
    /\ Len(enqueued) = 3
    /\ Len(chunkChan) = Capacity

\* C31: a read that ends with io.EOF on a chunk that is not the final one
\* is treated as a failure of the chunk, and its buffer is not uploaded.
C31_EOFOnlyToleratedOnFinalChunk ==
    (fn.op = "ReadChunk" /\ fn.done /\ fn.arg.err = "EOF" /\ ~fn.out.final)
    => fn.out.next = "continue"

\* C32: a retry loop, of the chunk upload or of the remote hash fetch,
\* that has made n >= 1 attempts has slept n-1 times: never after a
\* successful attempt and never after the last failed one.
RetryLoopEnded ==
    fn.op \in {"uploadRetryLoop", "getQuickXorHashWithRetry"} /\ fn.done
C32_DelayOnlyBetweenAttempts ==
    (RetryLoopEnded /\ fn.out.attempts >= 1) => fn.out.sleeps = fn.out.attempts - 1

\* C33: every chunk request declares 'bytes start-end/total' with total the
\* file size, 0 <= start <= end <= total-1, and carries a body of
\* end-start+1 bytes; the attempts of one chunk all declare the same range,
\* so that two requests for the same start offset are the same request.
C33_ContentRangeOfEveryChunkRequest ==
    /\ \A r \in ChunkRequests :
          /\ r.total = params.FileSize
          /\ 0 <= r.start
          /\ r.start <= r.end
          /\ r.end <= params.FileSize - 1
          /\ r.body = r.end - r.start + 1
    /\ \A q, r \in ChunkRequests : q.start = r.start => q = r
    /\ \A w \in InFlight :
          \E r \in ChunkRequests :
             /\ r.start = workers[w].start
             /\ r.end = ChunkEnd(r.start, params.FileSize, params.ChunkSize)
C33_Witness ==
    /\ \E w \in InFlight :
          /\ workers[w].retry >= 1
          /\ workers[w].start > 0
          /\ workers[w].start \in drive.refused
          /\ \E r \in ChunkRequests :
                r.start = workers[w].start /\ r.body < params.ChunkSize
    /\ Cardinality(ChunkRequests) >= 2

\* The callers that have sent a refresh exchange, and those that have
\* returned from EnsureTokenValid.
Exchanged == {c \in 1..NumCallers : callers[c].refreshes > 0}
Returned == {c \in 1..NumCallers : callers[c].pc \in {"etv_ret", "done"}}
NoExchangeFailed == \A c \in 1..NumCallers : callers[c].err # "refresh"
FirstRefreshInPlace ==
    /\ client.AccessToken = ConfigToken + 1
    /\ client.RefreshToken = ConfigToken + 1

\* C34 (as stated): when no exchange fails, the callers of EnsureTokenValid
\* on a client with an expired token perform exactly one refresh exchange
\* in total, and every caller returns with the credentials of that refresh
\* in place.
C34_ExactlyOneRefresh ==
    NoExchangeFailed =>
       /\ Cardinality(Exchanged) <= 1
       /\ Returned # {} => Cardinality(Exchanged) = 1 /\ FirstRefreshInPlace

\* C34 (amended): the same, as long as the lifetime of the refreshed token
\* has not run out since the callers were started.
C34_ExactlyOneRefreshWithinLifetime ==
    (NoExchangeFailed /\ now < MaxLifetime) =>
       /\ Cardinality(Exchanged) <= 1
       /\ Returned # {} =>
             /\ Cardinality(Exchanged) = 1
             /\ FirstRefreshInPlace
             /\ now < client.Expiration
C34_Witness ==
    /\ Returned = 1..NumCallers
    /\ NoExchangeFailed
    /\ \A c \in 1..NumCallers : callers[c].err = "nil"
    /\ Cardinality(Exchanged) = 1
    /\ authIssued = 1
    /\ now < MaxLifetime

\* The refresh exchange of caller c fails in this step.
ExchangeFails(c) == callers[c].pc = "etv_exchange" /\ callers'[c].pc = "etv_ret"

\* C35: a failed refresh exchange leaves AccessToken, RefreshToken and
\* Expiration as they were, the token is still expired when the call
\* returns its error, and a call that finds the token expired sends the
\* refresh exchange again; as long as no exchange has succeeded the client
\* holds the credentials of the configuration.
C35_FailedRefreshChangesNothing ==
    /\ [][\A c \in 1..NumCallers :
             /\ ExchangeFails(c)
                => /\ callers'[c].err = "refresh"
                   /\ client' = client
                   /\ ~(now' < client'.Expiration)
             /\ (callers[c].pc = "etv_check" /\ callers'[c].pc # "etv_check"
                 /\ ~(now < client.Expiration))
                => /\ callers'[c].pc = "etv_exchange"
                   /\ client' = client]_vars
    /\ [](authIssued = 0 =>
            client = [AccessToken |-> ConfigToken, RefreshToken |-> ConfigToken,
                      Expiration |-> 0])
C35_Witness ==
    /\ \E c, d \in 1..NumCallers :
          /\ callers[c].pc = "done"
          /\ callers[c].err = "refresh"
          /\ callers[d].pc = "etv_exchange"
    /\ authIssued = 0
    /\ client.RefreshToken = ConfigToken

\* Upload sends the lookup of the remote path in this step.
IssuesResolveRequest == upc = "resolve" /\ upc' = "resolve_wait"

\* C36: when Upload sends the item-resolution request, the token it sends
\* has not expired.
C36_LookupTokenUnexpired ==
    [][IssuesResolveRequest => now < client.Expiration]_vars

\* C37: for a non-empty file, once the item-resolution request was sent or
\* success was returned, every chunk of the file has had at least one
\* upload request.
C37_EveryChunkRequestedBeforeLookup ==
    (params.FileSize > 0 /\ (ResolveRequests # {} \/ Succeeded))
    => \A start \in AllChunks : Attempted(start)

\* C38: for a chunk size <= 0 Upload does not crash: the creation of its
\* channels ends without a run-time panic.
C38_NonPositiveChunkSizeDoesNotCrash ==
    (fn.op = "MakeChannels" /\ fn.done /\ fn.arg.chunkSize <= 0)
    => fn.out.panic = "none"

\* C40: when Upload returns because the local file could not be opened or
\* its size could not be read, no session-open request was sent and no
\* upload session exists on the drive.
SessionRequests == {r \in requests : r.kind = "session"}
C40_NoSessionBeforeFileIsReadable ==
    (Done /\ result.err \in {"open", "stat"})
    => (SessionRequests = {} /\ drive.session = "none")

\* C39: on the same outcomes of the reads and of the attempts, the
\* worker-pool version with one worker and the sequential version return
\* the same flag, and the sequential version sends no request for a chunk
\* after the first chunk that failed for good.
BothReturned ==
    fn.op = "Upload" /\ fn.out.seq.verdict # "running" /\ fn.out.pool.verdict # "running"
C39_VersionsAgreeOnTheVerdict ==
    BothReturned =>
       /\ fn.out.seq.verdict = fn.out.pool.verdict
       /\ fn.out.seq.verdict = "false"
          => \A start \in fn.out.seq.requested : start <= fn.out.seq.chunkStart
====
